---- MODULE Spec2Model ----
(***************************************************************************)
(* Benchmark orchestration of MilaVelkova/NoSqlPostgres (benchmark.py):    *)
(* run_all_benchmarks walks the query catalog, benchmark_query samples     *)
(* each query `runs` times, the aggregate of a query is appended to        *)
(* all_results, and save_results_to_csv persists the result sequence.      *)
(*                                                                         *)
(* Times are counted in units of 5 ms (0.005 s), memory deltas in MB.      *)
(* Means are exact rationals [num, den] in lowest terms.                   *)
(***************************************************************************)
EXTENDS Integers, Sequences, FiniteSets, TLC

VARIABLES
    pc,            \* position of the program
    env,           \* what the host and the store may do during this run
    runs,          \* argument `runs` of run_all_benchmarks
    dataset_size,  \* argument `dataset_size` of run_all_benchmarks
    cat_i,         \* index of the outer loop over benchmark_queries
    q_i,           \* index of the inner loop over category_info['queries']
    samples,       \* samples collected by the benchmark_query in progress
    all_metrics,   \* local all_metrics: the samples benchmark_query returned last
    all_results,   \* the result list of run_all_benchmarks
    console,       \* lines printed so far
    tx_status,     \* transaction status of queries_categorized.conn
    executions,    \* per query name: executions of func that returned
    clock,         \* datetime.now(), a logical clock
    files,         \* the file system: file name -> content
    host,          \* the user's input, the faults and the pace of this host
    store_movies,  \* the store: number of rows of the movies table
    invocation,    \* number of the invocation of main in progress
    raised,        \* the exception that ended main, "none" otherwise
    connections,   \* the connections to the store: those open, those used
    summary,       \* what print_summary printed
    script,        \* the loader that runs, "none" while benchmarking
    df,            \* the data frame of the loader: the rows read from the CSV
    existing,      \* the committed content of the store when the loader started
    status,        \* "running", "done" or "failed": how far the loader is
    performed,     \* the steps of the loader executed so far, in order
    store,         \* the committed content of the store, table by table
    work,          \* the content the loader's connection sees: its transaction
    serial,        \* per lookup table: the last id its sequence handed out
    maps,          \* per lookup table: the name -> id map read back
    committed,     \* the steps whose rows a commit made durable
    commits        \* number of conn.commit() calls of the loader

vars == <<pc, env, runs, dataset_size, cat_i, q_i, samples, all_metrics, all_results,
          console, tx_status, executions, clock, files, host, store_movies,
          invocation, raised, connections, summary,
          script, df, existing, status, performed, store, work, serial, maps,
          committed, commits>>

\* the state of the loaders, which benchmark.py leaves alone
loading == <<script, df, existing, status, performed, store, work, serial,
             maps, committed, commits>>

\* no loader runs
NoLoader ==
    /\ script = "none"
    /\ df = << >>
    /\ existing = << >>
    /\ status = "done"
    /\ performed = << >>
    /\ store = << >>
    /\ work = << >>
    /\ serial = << >>
    /\ maps = << >>
    /\ committed = {}
    /\ commits = 0

\* what run_all_benchmarks and the exports leave alone
outer == <<host, store_movies, invocation, raised, connections, summary>>

----------------------------------------------------------------------------
(* Bounds *)

MaxRuns == 2
MaxFlaky == 2
MaxInvocations == 2
TicksPerSecond == 4

TimeValues == {2, 3}
MemValues == {-1, 1}
RowValues == {0, 3}
CpuValues == {25}
DatasetSizes == {5000}
LoadSizes == {5000, 15000}

----------------------------------------------------------------------------
(* The catalog, benchmark.py lines 39-78 *)

benchmark_queries ==
    << [category |-> "SIMPLE",
        queries  |-> << "Simple: Profitable Movies",
                        "Simple: Popular Recent Movies",
                        "Simple: Long High Rated Movies",
                        "Simple: Spanish Blockbusters" >>],
       [category |-> "COMPLEX",
        queries  |-> << "Complex: Multi-Genre",
                        "Complex: Genre+Country+Language",
                        "Complex: Budget & Profit" >>],
       [category |-> "AGGREGATED",
        queries  |-> << "Aggregate: Movies per Year",
                        "Aggregate: Avg Rating per Genre",
                        "Aggregate: Top Actors",
                        "Aggregate: Yearly Trends",
                        "Aggregate: Genre Combinations" >>] >>

RECURSIVE FlattenFrom(_)
FlattenFrom(c) ==
    IF c > Len(benchmark_queries) THEN << >>
    ELSE [k \in 1..Len(benchmark_queries[c].queries) |->
             [category |-> benchmark_queries[c].category,
              name     |-> benchmark_queries[c].queries[k]]]
         \o FlattenFrom(c + 1)

\* the catalog in the order the two nested loops visit it
CatalogOrder == FlattenFrom(1)

QueryNames == {CatalogOrder[k].name : k \in 1..Len(CatalogOrder)}

CurrentCategory == benchmark_queries[cat_i].category
CurrentName == benchmark_queries[cat_i].queries[q_i]

----------------------------------------------------------------------------
(* Rationals *)

Abs(x) == IF x < 0 THEN -x ELSE x

RECURSIVE GCD(_, _)
GCD(a, b) == IF b = 0 THEN a ELSE GCD(b, a % b)

Rat(n, d) ==
    LET g == GCD(Abs(n), d)
    IN [num |-> n \div g, den |-> d \div g]

RatLess(a, b) == a.num * b.den < b.num * a.den
Zero == [num |-> 0, den |-> 1]

RECURSIVE SumSeq(_)
SumSeq(s) == IF s = << >> THEN 0 ELSE Head(s) + SumSeq(Tail(s))

RECURSIVE MinSeq(_)
MinSeq(s) ==
    IF Len(s) = 1 THEN s[1]
    ELSE LET m == MinSeq(Tail(s)) IN IF s[1] <= m THEN s[1] ELSE m

RECURSIVE MaxSeq(_)
MaxSeq(s) ==
    IF Len(s) = 1 THEN s[1]
    ELSE LET m == MaxSeq(Tail(s)) IN IF s[1] >= m THEN s[1] ELSE m

Field(ms, f) == [k \in 1..Len(ms) |-> ms[k][f]]

Mean(s) == Rat(SumSeq(s), Len(s))

----------------------------------------------------------------------------
(* benchmark_query of performance_monitor.py: the reduction of the samples *)

\* the mean taken with an integer division
AvgMetricsFloorMean(name, ms) ==
    [query_name         |-> name,
     runs               |-> Len(ms),
     avg_execution_time |-> Rat(SumSeq(Field(ms, "execution_time")) \div Len(ms), 1),
     min_execution_time |-> MinSeq(Field(ms, "execution_time")),
     max_execution_time |-> MaxSeq(Field(ms, "execution_time")),
     avg_cpu_percent    |-> Mean(Field(ms, "cpu_percent")),
     avg_memory_mb      |-> Mean(Field(ms, "memory_mb")),
     rows_returned      |-> ms[Len(ms)].rows_returned]

AvgMetrics(name, ms) ==
    [query_name         |-> name,
     runs               |-> Len(ms),
     avg_execution_time |-> Mean(Field(ms, "execution_time")),
     min_execution_time |-> MinSeq(Field(ms, "execution_time")),
     max_execution_time |-> MaxSeq(Field(ms, "execution_time")),
     avg_cpu_percent    |-> Mean(Field(ms, "cpu_percent")),
     avg_memory_mb      |-> Mean(Field(ms, "memory_mb")),
     rows_returned      |-> ms[Len(ms)].rows_returned]

\* lines 100-102: category, dataset_size and timestamp set on avg_metrics
Stamp(avg_metrics, category, size, now) ==
    [query_name         |-> avg_metrics.query_name,
     runs               |-> avg_metrics.runs,
     avg_execution_time |-> avg_metrics.avg_execution_time,
     min_execution_time |-> avg_metrics.min_execution_time,
     max_execution_time |-> avg_metrics.max_execution_time,
     avg_cpu_percent    |-> avg_metrics.avg_cpu_percent,
     avg_memory_mb      |-> avg_metrics.avg_memory_mb,
     rows_returned      |-> avg_metrics.rows_returned,
     category           |-> category,
     dataset_size       |-> size,
     timestamp          |-> now]

\* lines 104-105 left out
AnnotateNoClamp(avg_metrics, category, size, now) ==
    Stamp(avg_metrics, category, size, now)

\* line 105 assigning the wrong key
AnnotateClampTime(avg_metrics, category, size, now) ==
    LET m == Stamp(avg_metrics, category, size, now)
    IN IF RatLess(m.avg_memory_mb, Zero)
       THEN [m EXCEPT !.avg_execution_time = Zero]
       ELSE m

\* benchmark.py lines 99-105: the metadata and the clamp of the memory mean
Annotate(avg_metrics, category, size, now) ==
    LET m == Stamp(avg_metrics, category, size, now)
    IN IF RatLess(m.avg_memory_mb, Zero)
       THEN [m EXCEPT !.avg_memory_mb = Zero]
       ELSE m

----------------------------------------------------------------------------
(* The environment of a run *)

DefaultSample ==
    [execution_time |-> 2, cpu_percent |-> 25, memory_mb |-> 1,
     rows_returned |-> 3]

SampleValues ==
    [execution_time : TimeValues, cpu_percent : CpuValues,
     memory_mb : MemValues, rows_returned : RowValues]

\* the times of the scenario of the specification, section 8:
\* [0.01, 0.02, 0.015, 0.01, 0.02] seconds
ScenarioTimes == <<2, 4, 3, 2, 4>>

ScenarioSample(k) ==
    [execution_time |-> ScenarioTimes[k], cpu_percent |-> 25,
     memory_mb |-> 1, rows_returned |-> 3]

\* a run in which the queries of F may fail and every sample reads the same
FlakyEnv(F) == [noisy |-> {}, flaky |-> F, scripted |-> FALSE]

FlakySets == {F \in SUBSET QueryNames : Cardinality(F) <= MaxFlaky}

\* a run in which the samples of one query vary, and only it may fail
NoisyEnv(q) == [noisy |-> {q}, flaky |-> {q}, scripted |-> FALSE]

\* the scenario: the first query observes ScenarioTimes
ScenarioEnv ==
    [noisy |-> {CatalogOrder[1].name}, flaky |-> {}, scripted |-> TRUE]

SampleChoices(name, k) ==
    IF name \notin env.noisy THEN {DefaultSample}
    ELSE IF env.scripted THEN {ScenarioSample(k)}
    ELSE SampleValues

\* the number of rows grows with every run of the query
fetchall_len_drifting(name, movies) ==
    (movies \div 5000) * 3 + (invocation - 1)

\* len(cur.fetchall()): the rows a query selects from a store of that many
\* movies; the statement and its arguments are fixed by the catalog
fetchall_len(name, movies) ==
    IF CatalogOrder[1].name = name \/ movies = 0 THEN (movies \div 5000) * 3
    ELSE (movies \div 5000) * 3 + 1

\* the sample of an execution: what the process measured, and the number
\* of rows the store returned
Measured(name, k, movies) ==
    { [s EXCEPT !.rows_returned = fetchall_len(name, movies)] :
        s \in SampleChoices(name, k) }

----------------------------------------------------------------------------
(* Console lines *)

Line(kind, name, mark, error) ==
    [kind |-> kind, name |-> name, mark |-> mark, error |-> error]

ReplaceLast(s, x) == [s EXCEPT ![Len(s)] = x]

----------------------------------------------------------------------------

----------------------------------------------------------------------------
(* Text: a string the program inspects is a sequence of characters *)

DigitChars == << "0", "1", "2", "3", "4", "5", "6", "7", "8", "9" >>

IsDigitChar(c) == \E d \in 1..10 : DigitChars[d] = c

DigitValue(c) == CHOOSE d \in 0..9 : DigitChars[d + 1] = c

\* str(n) of a natural number: its decimal digits
RECURSIVE str(_)
str(n) == IF n < 10 THEN << DigitChars[n + 1] >>
          ELSE str(n \div 10) \o << DigitChars[(n % 10) + 1] >>

\* int(s) of a string of decimal digits
RECURSIVE int(_)
int(s) == IF Len(s) = 0 THEN 0
          ELSE 10 * int(SubSeq(s, 1, Len(s) - 1)) + DigitValue(s[Len(s)])

\* str.isdigit(): not empty and nothing but digits
isdigit(s) == Len(s) > 0 /\ \A k \in 1..Len(s) : IsDigitChar(s[k])

\* str.strip(): the white space at both ends is dropped
RECURSIVE strip(_)
strip(s) == IF Len(s) = 0 THEN s
            ELSE IF s[1] = " " THEN strip(Tail(s))
            ELSE IF s[Len(s)] = " " THEN strip(SubSeq(s, 1, Len(s) - 1))
            ELSE s

----------------------------------------------------------------------------
(* The host of main: what the user types, what fails, how fast the store is *)

\* the places of main where the host can make a call fail
Faults == {"db_stats", "sys_info", "csv", "json", "rewrite"}

Host(input, faults, invocations, tick) ==
    [input |-> input, faults |-> faults, invocations |-> invocations,
     tick |-> tick]

\* the user types a run count; nothing fails; main is run once
TypedHosts == { Host(str(n), {}, 1, 1) : n \in 1..MaxRuns }

\* answers to the prompt that are not a positive whole number, or padded
OddInputs == { << >>, << "a" >>, << "0" >>, << "-", "1" >>,
               << "1", ".", "5" >>, << " ", "1", " " >> }

OddHosts == { Host(i, {}, 1, 1) : i \in OddInputs }

FaultyHosts == { Host(str(1), {f}, 1, 1) : f \in Faults }

\* main is run again and again; with tick 0 the store answers within the
\* resolution of the clock
RepeatHosts == { Host(str(1), {}, MaxInvocations, t) : t \in {0, 1} }

\* the store may never answer a statement
HangingHosts == { Host(str(1), {"hang"}, 1, 1) }

\* `from queries_categorized import *`, benchmark.py line 6, runs the module:
\* queries_categorized.py lines 12-19 connect and open the cursor `cur`
Imported == [open |-> {"queries_categorized"}, used |-> {}]

\* psycopg2.connect(...) binds `handle`
Opened(handle) == [connections EXCEPT !.open = @ \cup {handle}]

\* a statement is executed on a cursor of `handle`
Used(c, handle) == [c EXCEPT !.used = @ \cup {handle}]

\* conn.close()
Closed(handle) == [connections EXCEPT !.open = @ \ {handle}]

Init ==
    /\ NoLoader
    /\ pc = "main"
    /\ \/ /\ \E F \in FlakySets : env = FlakyEnv(F)
          /\ host \in TypedHosts
       \/ /\ \E q \in QueryNames : env = NoisyEnv(q)
          /\ host \in TypedHosts
       \/ /\ env = ScenarioEnv
          /\ host = Host(str(Len(ScenarioTimes)), {}, 1, 1)
       \/ /\ env = FlakyEnv({})
          /\ host \in OddHosts \cup FaultyHosts \cup RepeatHosts \cup HangingHosts
    /\ store_movies \in DatasetSizes
    /\ invocation = 1
    /\ raised = "none"
    /\ connections = Imported
    /\ summary = << >>
    /\ runs = 0
    /\ dataset_size = 0
    /\ cat_i = 1
    /\ q_i = 1
    /\ samples = << >>
    /\ all_metrics = << >>
    /\ all_results = << >>
    /\ console = << >>
    /\ tx_status = "IDLE"
    /\ executions = [n \in QueryNames |-> 0]
    /\ clock = 0
    /\ files = << >>

\* the size taken from the name of a report written earlier, when there is one
get_current_row_count_cached ==
    IF DOMAIN files = {} THEN store_movies
    ELSE (CHOOSE f \in DOMAIN files : TRUE).rows

\* get_current_row_count, lines 14-17: SELECT COUNT(*) FROM movies
get_current_row_count == store_movies

\* where main goes on when the call that failed is skipped
AfterPoint ==
    [db_stats |-> "sysinfo", sys_info |-> "input", csv |-> "csv_saved",
     json |-> "json_saved", rewrite |-> "complete"]

\* the error caught and logged, main goes on to report completion
RaiseLogged(fault) ==
    /\ raised' = fault
    /\ pc' = AfterPoint[fault]

\* an exception leaves main: nothing catches it, the process ends
Raise(fault) ==
    /\ raised' = fault
    /\ pc' = "aborted"

\* main connects and reads the size of the data set: lines 215-226
Connect ==
    /\ pc = "main"
    /\ dataset_size' = get_current_row_count
    /\ connections' = Used(Opened("main"), "main")
    /\ tx_status' = "IDLE"
    /\ pc' = "stats"
    /\ UNCHANGED <<loading, env, runs, cat_i, q_i, samples, all_metrics, all_results,
                   console, executions, clock, files, host, store_movies,
                   invocation, raised, summary>>

\* lines 230-232: the statistics of the store are read and printed
GetDatabaseStats ==
    /\ pc = "stats"
    /\ pc' = "sysinfo"
    /\ console' = Append(console, Line("message", "Database Size", "", ""))
    /\ UNCHANGED <<loading, env, runs, dataset_size, cat_i, q_i, samples, all_metrics,
                   all_results, tx_status, executions, clock, files, outer>>

\* lines 236-239: the facts of the platform are read and printed
GetSystemInfo ==
    /\ pc = "sysinfo"
    /\ pc' = "input"
    /\ console' = Append(console, Line("message", "System Information", "", ""))
    /\ UNCHANGED <<loading, env, runs, dataset_size, cat_i, q_i, samples, all_metrics,
                   all_results, tx_status, executions, clock, files, outer>>

\* line 244: the run count used when the answer is not a whole number
DefaultRuns == 10

\* lines 243-244: runs = int(runs) if runs.isdigit() else 10, after strip()
ParseRuns(text) ==
    IF isdigit(strip(text)) THEN int(strip(text)) ELSE DefaultRuns

\* lines 243-244: the prompt for the number of runs is answered
ReadRuns ==
    /\ pc = "input"
    /\ runs' = ParseRuns(host.input)
    /\ pc' = "call"
    /\ UNCHANGED <<loading, env, dataset_size, cat_i, q_i, samples, all_metrics,
                   all_results, console, tx_status, executions, clock, files,
                   outer>>

\* run_all_benchmarks is entered: lines 32-36
Call ==
    /\ pc = "call"
    /\ UNCHANGED outer
    /\ all_results' = << >>
    /\ console' = Append(console, Line("banner", "", "", ""))
    /\ cat_i' = 1
    /\ pc' = "category"
    /\ UNCHANGED <<loading, env, runs, dataset_size, q_i, samples, all_metrics,
                   tx_status, executions, clock, files>>

\* the outer loop takes the next category: lines 81-85
EnterCategory ==
    /\ pc = "category"
    /\ UNCHANGED outer
    /\ cat_i <= Len(benchmark_queries)
    /\ console' = Append(console, Line("category", CurrentCategory, "", ""))
    /\ q_i' = 1
    /\ pc' = "query"
    /\ UNCHANGED <<loading, env, runs, dataset_size, cat_i, samples, all_metrics,
                   all_results, tx_status, executions, clock, files>>

\* the inner loop is exhausted: back to the outer loop
LeaveCategory ==
    /\ pc = "query"
    /\ UNCHANGED outer
    /\ q_i > Len(benchmark_queries[cat_i].queries)
    /\ cat_i' = cat_i + 1
    /\ pc' = "category"
    /\ UNCHANGED <<loading, env, runs, dataset_size, q_i, samples, all_metrics,
                   all_results, console, tx_status, executions, clock, files>>

\* the inner loop takes the next query and calls benchmark_query: lines 87-91
BeginQuery ==
    /\ pc = "query"
    /\ UNCHANGED outer
    /\ q_i <= Len(benchmark_queries[cat_i].queries)
    /\ console' = Append(console, Line("query", CurrentName, "", ""))
    /\ samples' = << >>
    /\ pc' = "sampling"
    /\ UNCHANGED <<loading, env, runs, dataset_size, cat_i, q_i, all_metrics,
                   all_results, tx_status, executions, clock, files>>

\* runs=runs left out of the call: the default of the signature is used
RunsArgumentDefault == 10

\* the keyword argument runs=runs of the call of benchmark_query, line 95
RunsArgument == runs

\* the first execution of the query after `name` is started along with it
ExecuteWithPrefetch(name) ==
    [n \in QueryNames |->
        IF n = name THEN executions[n] + 1
        ELSE IF /\ executions[n] = 0
                /\ \E k \in 1..(Len(CatalogOrder) - 1) :
                      CatalogOrder[k].name = name /\ CatalogOrder[k + 1].name = n
             THEN 1
        ELSE executions[n]]

\* func(*args) is invoked once: the statement of `name` runs on the store
Execute(name) == [executions EXCEPT ![name] = @ + 1]

\* the cursor a catalog query executes its statement on: the functions of
\* queries_categorized.py take no cursor and use the `cur` of their module
\* (lines 38, 52, ... 256), not the cursor handed to run_all_benchmarks
QueryHandle == "queries_categorized"

\* the first catalog query made to delete what it has read
statement_purging(name) ==
    IF name = CatalogOrder[1].name THEN "DELETE" ELSE "SELECT"

\* the SQL statement of a catalog query: every one of the twelve is a
\* single SELECT (queries_categorized.py lines 27-37 ... 236-255)
statement(name) == "SELECT"

\* the movies table after a statement of the given kind has run
execute(kind, movies) ==
    IF kind = "SELECT" THEN movies
    ELSE IF kind = "DELETE" THEN 0
    ELSE movies + 1

\* one execution of func returns its rows and is sampled
SampleOK ==
    /\ pc = "sampling"
    /\ UNCHANGED <<host, invocation, raised, summary>>
    /\ Len(samples) < RunsArgument
    /\ tx_status # "INERROR"
    /\ connections' = Used(connections, QueryHandle)
    /\ store_movies' = execute(statement(CurrentName), store_movies)
    /\ \E s \in Measured(CurrentName, Len(samples) + 1, store_movies) :
          samples' = Append(samples, s)
    /\ tx_status' = "INTRANS"
    /\ executions' = Execute(CurrentName)
    /\ clock' = clock + host.tick
    /\ UNCHANGED <<loading, pc, env, runs, dataset_size, cat_i, q_i, all_metrics,
                   all_results, console, files>>

\* the errors one execution can raise:
\*   "client"  raised before the statement reaches the store
\*   "store"   the store rejects the statement: the transaction is aborted
\*   "aborted" InFailedSqlTransaction: an earlier statement of the
\*             transaction failed and nothing rolled it back
\* Once the transaction is aborted the statement of every execution is
\* rejected, so "aborted" is the error reported from then on.
ErrorKinds(name) ==
    IF tx_status = "INERROR" THEN {"aborted"}
    ELSE IF name \in env.flaky THEN {"client", "store"}
    ELSE {}

\* `break` in the place of `continue`: the rest of the category is skipped
HandleErrorBreak(kind) ==
    /\ console' = ReplaceLast(console, Line("query", CurrentName, "error", kind))
    /\ q_i' = Len(benchmark_queries[cat_i].queries) + 1
    /\ pc' = "query"
    /\ UNCHANGED all_results

\* the failed query recorded with a zero-valued row
HandleErrorRecording(kind) ==
    /\ console' = ReplaceLast(console, Line("query", CurrentName, "error", kind))
    /\ q_i' = q_i + 1
    /\ pc' = "query"
    /\ all_results' = Append(all_results,
           [query_name |-> CurrentName, runs |-> Len(samples),
            avg_execution_time |-> Zero, min_execution_time |-> 0,
            max_execution_time |-> 0, avg_cpu_percent |-> Zero,
            avg_memory_mb |-> Zero, rows_returned |-> 0,
            category |-> CurrentCategory, dataset_size |-> dataset_size,
            timestamp |-> clock])

\* the failed query attempted a second time before the loop goes on
HandleErrorRetryOnce(kind) ==
    /\ console' = ReplaceLast(console, Line("query", CurrentName, "error", kind))
    /\ q_i' = IF Len(SelectSeq(console, LAMBDA l : l.kind = "query"
                                                  /\ l.name = CurrentName)) < 2
              THEN q_i ELSE q_i + 1
    /\ pc' = "query"
    /\ UNCHANGED all_results

\* the except branch of run_all_benchmarks, lines 111-113
HandleError(kind) ==
    /\ console' = ReplaceLast(console, Line("query", CurrentName, "error", kind))
    /\ q_i' = q_i + 1
    /\ pc' = "query"
    /\ UNCHANGED all_results

\* one execution of func raises; the exception leaves benchmark_query
SampleFail ==
    /\ pc = "sampling"
    /\ UNCHANGED <<host, store_movies, invocation, raised, summary>>
    /\ Len(samples) < RunsArgument
    /\ \E kind \in ErrorKinds(CurrentName) :
          /\ HandleError(kind)
          /\ tx_status' = IF kind = "client" THEN tx_status ELSE "INERROR"
          /\ connections' = IF kind = "client" THEN connections
                            ELSE Used(connections, QueryHandle)
    /\ samples' = << >>
    /\ clock' = clock + host.tick
    /\ UNCHANGED <<loading, env, runs, dataset_size, cat_i, all_metrics, executions,
                   files>>

\* the wait given up after a while and reported as an error of the query
WaitWithTimeout == HandleError("timeout")

\* cur.execute blocks until the store answers: no timeout, no cancellation
Wait ==
    /\ pc' = "hung"
    /\ UNCHANGED <<console, q_i, all_results>>

\* the store never answers the statement of one execution
Hang ==
    /\ pc = "sampling"
    /\ "hang" \in host.faults
    /\ Len(samples) < RunsArgument
    /\ tx_status # "INERROR"
    /\ connections' = Used(connections, QueryHandle)
    /\ tx_status' = "ACTIVE"
    /\ Wait
    /\ UNCHANGED <<loading, env, runs, dataset_size, cat_i, samples, all_metrics,
                   executions, clock, files, host, store_movies, invocation,
                   raised, summary>>

\* insert(0, ...) in the place of append
RecordResultFront(avg_metrics) ==
    /\ all_results' = << Annotate(avg_metrics, CurrentCategory, dataset_size, clock) >>
                          \o all_results
    /\ console' = ReplaceLast(console, Line("query", CurrentName, "done", ""))
    /\ q_i' = q_i + 1
    /\ pc' = "query"

\* the aggregate appended a second time
RecordResultTwice(avg_metrics) ==
    /\ all_results' = all_results \o
           << Annotate(avg_metrics, CurrentCategory, dataset_size, clock),
              Annotate(avg_metrics, CurrentCategory, dataset_size, clock) >>
    /\ console' = ReplaceLast(console, Line("query", CurrentName, "done", ""))
    /\ q_i' = q_i + 1
    /\ pc' = "query"

\* benchmark_query returns; lines 99-109
RecordResult(avg_metrics) ==
    /\ all_results' = Append(all_results,
                         Annotate(avg_metrics, CurrentCategory, dataset_size, clock))
    /\ console' = ReplaceLast(console, Line("query", CurrentName, "done", ""))
    /\ q_i' = q_i + 1
    /\ pc' = "query"

\* benchmark_query is asked for no run at all: the reduction of no sample
\* (the minimum of an empty sequence, a division by zero) raises
ReduceNothing ==
    /\ pc = "sampling"
    /\ UNCHANGED outer
    /\ RunsArgument = 0
    /\ HandleError("client")
    /\ samples' = << >>
    /\ UNCHANGED <<loading, env, runs, dataset_size, cat_i, all_metrics, tx_status,
                   executions, clock, files>>

FinishQuery ==
    /\ pc = "sampling"
    /\ UNCHANGED outer
    /\ RunsArgument > 0
    /\ Len(samples) = RunsArgument
    /\ RecordResult(AvgMetrics(CurrentName, samples))
    /\ all_metrics' = samples
    /\ samples' = << >>
    /\ UNCHANGED <<loading, env, runs, dataset_size, cat_i, tx_status, executions,
                   clock, files>>

\* the outer loop is exhausted: line 115
Return ==
    /\ pc = "category"
    /\ UNCHANGED outer
    /\ cat_i > Len(benchmark_queries)
    /\ pc' = "returned"
    /\ UNCHANGED <<loading, env, runs, dataset_size, cat_i, q_i, samples, all_metrics,
                   all_results, console, tx_status, executions, clock, files>>

----------------------------------------------------------------------------
(* The summary on the console *)

RatAdd(a, b) == Rat(a.num * b.den + b.num * a.den, a.den * b.den)
RatTimes(a, n) == Rat(a.num * n, a.den)
RatOver(a, n) == Rat(a.num, a.den * n)

\* sum(...) over a sequence of floats
RECURSIVE SumRat(_)
SumRat(s) == IF s = << >> THEN Zero ELSE RatAdd(Head(s), SumRat(Tail(s)))

\* lines 159-164: the keys of `categories`, in the order of first insertion
RECURSIVE CategoryKeys(_)
CategoryKeys(results) ==
    IF results = << >> THEN << >>
    ELSE LET before == CategoryKeys(SubSeq(results, 1, Len(results) - 1))
             cat == results[Len(results)].category
         IN IF \E k \in 1..Len(before) : before[k] = cat THEN before
            ELSE Append(before, cat)

\* lines 171-177: the line printed for one result
SummaryRow(result) ==
    [query_name |-> result.query_name, time |-> result.avg_execution_time,
     rows |-> result.rows_returned, cpu |-> result.avg_cpu_percent]

\* lines 166-177: one table per category, the results in their order
SummaryTables(results) ==
    LET keys == CategoryKeys(results)
    IN [c \in 1..Len(keys) |->
          LET cat_results == SelectSeq(results, LAMBDA r : r.category = keys[c])
          IN [category |-> keys[c],
              rows |-> [k \in 1..Len(cat_results) |-> SummaryRow(cat_results[k])]]]

\* lines 184-191: the overall statistics
Overall(results) ==
    [total_queries |-> Len(results),
     avg_time |-> RatOver(SumRat([k \in 1..Len(results) |->
                                   results[k].avg_execution_time]), Len(results)),
     total_time |-> SumRat([k \in 1..Len(results) |->
                     RatTimes(results[k].avg_execution_time, results[k].runs)]),
     dataset_size |-> results[1].dataset_size]

\* the total taken as the sum of the averages
print_summary_unweighted(results) ==
    /\ summary' = IF results = << >> THEN << >>
                  ELSE << [tables |-> SummaryTables(results),
                           overall |-> [Overall(results) EXCEPT !.total_time =
                               SumRat([k \in 1..Len(results) |->
                                         results[k].avg_execution_time])]] >>
    /\ UNCHANGED all_results

\* the results sorted in place, slowest first, before they are printed
print_summary_sorting(results) ==
    /\ summary' = IF results = << >> THEN << >>
                  ELSE << [tables |-> SummaryTables(results),
                           overall |-> Overall(results)] >>
    /\ all_results' = IF \E j, k \in 1..Len(results) :
                            /\ j < k
                            /\ RatLess(results[j].avg_execution_time,
                                       results[k].avg_execution_time)
                       THEN [k \in 1..Len(results) |-> results[Len(results) + 1 - k]]
                       ELSE results

\* print_summary, lines 149-191: nothing for no result; results is only read
print_summary(results) ==
    /\ summary' = IF results = << >> THEN << >>
                  ELSE << [tables |-> SummaryTables(results),
                           overall |-> Overall(results)] >>
    /\ UNCHANGED all_results

\* main, line 250
PrintSummary ==
    /\ pc = "returned"
    /\ print_summary(all_results)
    /\ pc' = "summarized"
    /\ UNCHANGED <<loading, env, runs, dataset_size, cat_i, q_i, samples, all_metrics,
                   console, tx_status, executions, clock, files, host,
                   store_movies, invocation, raised, connections>>

----------------------------------------------------------------------------
(* The tabular export *)

\* benchmark.py lines 124-128
fieldnames ==
    << "timestamp", "dataset_size", "category", "query_name", "runs",
       "avg_execution_time", "min_execution_time", "max_execution_time",
       "avg_cpu_percent", "avg_memory_mb", "rows_returned" >>

\* the fields of an aggregate by the type of their value
TextFields == {"category", "query_name"}
RealFields == {"avg_execution_time", "avg_cpu_percent", "avg_memory_mb"}

\* repr of a float: the shortest text that float() reads back as the same
\* number; here the sign, the numerator, a bar and the denominator
repr(x) ==
    (IF x.num < 0 THEN << "-" >> ELSE << >>) \o str(Abs(x.num)) \o << "/" >>
        \o str(x.den)

\* float(text): the number a text written by repr stands for
float(text) ==
    LET neg == text[1] = "-"
        body == IF neg THEN Tail(text) ELSE text
        bar == CHOOSE k \in 1..Len(body) : body[k] = "/"
        n == int(SubSeq(body, 1, bar - 1))
        d == int(SubSeq(body, bar + 1, Len(body)))
    IN Rat(IF neg THEN 0 - n ELSE n, d)

\* str(value) as the csv and json writers apply it to the field `key`
Cell(key, value) ==
    IF key \in TextFields THEN value
    ELSE IF key \in RealFields THEN repr(value)
    ELSE str(value)

\* the value a reader gets back from the text of the field `key`
Uncell(key, text) ==
    IF key \in TextFields THEN text
    ELSE IF key \in RealFields THEN float(text)
    ELSE int(text)

\* the minimum and the maximum written under each other's column
CsvRowSwapped(result) ==
    LET from(key) == IF key = "min_execution_time" THEN "max_execution_time"
                     ELSE IF key = "max_execution_time" THEN "min_execution_time"
                     ELSE key
    IN [k \in 1..Len(fieldnames) |-> Cell(fieldnames[k], result[from(fieldnames[k])])]

\* line 135: the row of one result, in the order of fieldnames, as text
CsvRow(result) ==
    [k \in 1..Len(fieldnames) |-> Cell(fieldnames[k], result[fieldnames[k]])]

\* strftime("%Y%m%d_%H%M%S"): the time of day cut to whole seconds
strftime(now) == now \div TicksPerSecond

\* main, line 254
csv_filename(size, now) ==
    [stem |-> "benchmark_results", rows |-> size, timestamp |-> strftime(now),
     ext |-> "csv"]

\* the early return of lines 120-122 moved behind writeheader()
save_results_to_csv_header_first(results, filename) ==
    /\ files' = (filename :> (<< fieldnames >> \o
                     [k \in 1..Len(results) |-> CsvRow(results[k])])) @@ files
    /\ console' = Append(console,
                     IF results = << >>
                     THEN Line("message", "No results to save!", "", "")
                     ELSE Line("message", "Results saved to", "csv", ""))

\* save_results_to_csv, lines 118-138
save_results_to_csv(results, filename) ==
    IF results = << >>
    THEN /\ console' = Append(console, Line("message", "No results to save!", "", ""))
         /\ UNCHANGED files
    ELSE /\ files' = (filename :> (<< fieldnames >> \o
                         [k \in 1..Len(results) |-> CsvRow(results[k])])) @@ files
         /\ console' = Append(console, Line("message", "Results saved to", "csv", ""))

\* main, lines 253-257: the results of the run are exported
SaveCsv ==
    /\ pc = "summarized"
    /\ UNCHANGED outer
    /\ save_results_to_csv(all_results, csv_filename(dataset_size, clock))
    /\ pc' = "csv_saved"
    /\ UNCHANGED <<loading, env, runs, dataset_size, cat_i, q_i, samples, all_metrics,
                   all_results, tx_status, executions, clock>>

----------------------------------------------------------------------------
(* The structured export *)

\* main, line 255
json_filename(size, now) ==
    [stem |-> "benchmark_results", rows |-> size, timestamp |-> strftime(now),
     ext |-> "json"]

\* json.dump(results, ...): a list of objects, every value as its text
json_dump(results) ==
    [k \in 1..Len(results) |->
        [key \in DOMAIN results[k] |-> Cell(key, results[k][key])]]

\* json.load: the list of dicts the text stands for
json_load(document) ==
    [k \in 1..Len(document) |->
        [key \in DOMAIN document[k] |-> Uncell(key, document[k][key])]]

\* the time of the call written into the document
save_results_to_json_stamped(results, filename) ==
    /\ files' = (filename :> (json_dump(results) \o << [exported |-> str(clock)] >>))
                    @@ files
    /\ console' = Append(console, Line("message", "Results saved to", "json", ""))
    /\ UNCHANGED all_results

\* save_results_to_json, lines 141-146: results is read, never assigned
save_results_to_json(results, filename) ==
    /\ files' = (filename :> json_dump(results)) @@ files
    /\ console' = Append(console, Line("message", "Results saved to", "json", ""))
    /\ UNCHANGED all_results

\* main, line 258
SaveJson ==
    /\ pc = "csv_saved"
    /\ save_results_to_json(all_results, json_filename(dataset_size, clock))
    /\ pc' = "json_saved"
    /\ UNCHANGED <<loading, env, runs, dataset_size, cat_i, q_i, samples, all_metrics,
                   tx_status, executions, clock, outer>>

\* the envelope written without the data that was read back
full_data_fresh(data) ==
    [system_info |-> "sys_info", database_stats |-> "db_stats",
     dataset_size |-> str(dataset_size), runs_per_query |-> str(runs),
     timestamp |-> str(clock), results |-> << >>]

\* the envelope of lines 264-271, as json.dump writes it at line 274
full_data(data) ==
    [system_info |-> "sys_info", database_stats |-> "db_stats",
     dataset_size |-> str(dataset_size), runs_per_query |-> str(runs),
     timestamp |-> str(clock), results |-> json_dump(data)]

\* main, lines 260-282: the document is read back, wrapped and rewritten,
\* completion is reported and the connection is closed
EnrichJson ==
    /\ pc = "json_saved"
    /\ LET name == json_filename(dataset_size, clock)
           data == json_load(files[name])
       IN files' = [files EXCEPT ![name] = full_data(data)]
    /\ console' = Append(console, Line("message", "BENCHMARK COMPLETE!", "", ""))
    /\ connections' = Closed("main")
    /\ pc' = "complete"
    /\ UNCHANGED <<loading, env, runs, dataset_size, cat_i, q_i, samples, all_metrics,
                   all_results, tx_status, executions, clock, host,
                   store_movies, invocation, raised, summary>>

----------------------------------------------------------------------------
(* Failures of main and repeated invocations *)

\* where in main each fault strikes
FaultPoint ==
    [db_stats |-> "stats", sys_info |-> "sysinfo", csv |-> "summarized",
     json |-> "csv_saved", rewrite |-> "json_saved"]

\* the file a failing write was about to write, if any
FaultFile(fault) ==
    IF fault = "csv" THEN {csv_filename(dataset_size, clock)}
    ELSE IF fault \in {"json", "rewrite"} THEN {json_filename(dataset_size, clock)}
    ELSE {}

\* a call of main raises: get_database_stats (230), get_system_info (236),
\* open or write in save_results_to_csv (130-136), in save_results_to_json
\* (143-144) or in the rewrite (273-274). No file is opened for an empty
\* result sequence. A failing write leaves the file untouched, or created
\* and empty.
Fail ==
    /\ \E fault \in host.faults \cap Faults :
          /\ pc = FaultPoint[fault]
          /\ fault = "csv" => all_results # << >>
          /\ Raise(fault)
          /\ \/ UNCHANGED files
             \/ \E name \in FaultFile(fault) : files' = (name :> << >>) @@ files
    /\ UNCHANGED <<loading, env, runs, dataset_size, cat_i, q_i, samples, all_metrics,
                   all_results, console, tx_status, executions, clock, host,
                   store_movies, invocation, connections, summary>>

\* main is run again: a new process, a new connection, the same disk
Restart ==
    /\ pc \in {"complete", "aborted"}
    /\ invocation < host.invocations
    /\ invocation' = invocation + 1
    /\ pc' = "main"
    /\ raised' = "none"
    /\ runs' = 0
    /\ dataset_size' = 0
    /\ cat_i' = 1
    /\ q_i' = 1
    /\ samples' = << >>
    /\ all_metrics' = << >>
    /\ all_results' = << >>
    /\ console' = << >>
    /\ tx_status' = "IDLE"
    /\ executions' = [n \in QueryNames |-> 0]
    /\ connections' = Imported
    /\ summary' = << >>
    /\ UNCHANGED <<loading, env, clock, files, host, store_movies>>

\* between two invocations the loader brings the store to another size
Reload ==
    /\ pc \in {"complete", "aborted"}
    /\ invocation < host.invocations
    /\ \E size \in LoadSizes \ {store_movies} : store_movies' = size
    /\ UNCHANGED <<loading, pc, env, runs, dataset_size, cat_i, q_i, samples,
                   all_metrics, all_results, console, tx_status, executions,
                   clock, files, host, invocation, raised, connections,
                   summary>>

Next ==
    \/ Connect
    \/ GetDatabaseStats
    \/ GetSystemInfo
    \/ ReadRuns
    \/ ReduceNothing
    \/ SaveJson
    \/ EnrichJson
    \/ Fail
    \/ Restart
    \/ Reload
    \/ Call
    \/ EnterCategory
    \/ LeaveCategory
    \/ BeginQuery
    \/ SampleOK
    \/ SampleFail
    \/ FinishQuery
    \/ Hang
    \/ Return
    \/ PrintSummary
    \/ SaveCsv

Spec == Init /\ [][Next]_vars

----------------------------------------------------------------------------
(* run_all_benchmarks on its own, the process being scheduled for ever *)

\* main at line 247: connected, the row count read
Connected == [open |-> {"queries_categorized", "main"}, used |-> {"main"}]

InitRun ==
    /\ NoLoader
    /\ pc = "call"
    /\ runs \in 0..MaxRuns
    /\ \E F \in FlakySets : Cardinality(F) <= 1 /\ env = FlakyEnv(F)
    /\ \E faults \in {{}, {"hang"}} : host = Host(str(runs), faults, 1, 1)
    /\ store_movies \in DatasetSizes
    /\ dataset_size = store_movies
    /\ invocation = 1
    /\ raised = "none"
    /\ connections = Connected
    /\ summary = << >>
    /\ cat_i = 1
    /\ q_i = 1
    /\ samples = << >>
    /\ all_metrics = << >>
    /\ all_results = << >>
    /\ console = << >>
    /\ tx_status = "IDLE"
    /\ executions = [n \in QueryNames |-> 0]
    /\ clock = 0
    /\ files = << >>

NextRun ==
    \/ Call
    \/ EnterCategory
    \/ LeaveCategory
    \/ BeginQuery
    \/ SampleOK
    \/ SampleFail
    \/ Hang
    \/ ReduceNothing
    \/ FinishQuery
    \/ Return

\* the one thread of the process is never starved: it takes its next step
SpecRun == InitRun /\ [][NextRun]_vars /\ WF_vars(NextRun)

----------------------------------------------------------------------------
(* main run twice, with timings that vary and a query that may fail *)

VaryingEnv ==
    [noisy |-> {CatalogOrder[1].name}, flaky |-> {CatalogOrder[2].name},
     scripted |-> FALSE]

InitTwice ==
    /\ NoLoader
    /\ pc = "main"
    /\ env = VaryingEnv
    /\ host = Host(str(1), {}, 2, 1)
    /\ store_movies \in DatasetSizes
    /\ invocation = 1
    /\ raised = "none"
    /\ connections = Imported
    /\ summary = << >>
    /\ runs = 0
    /\ dataset_size = 0
    /\ cat_i = 1
    /\ q_i = 1
    /\ samples = << >>
    /\ all_metrics = << >>
    /\ all_results = << >>
    /\ console = << >>
    /\ tx_status = "IDLE"
    /\ executions = [n \in QueryNames |-> 0]
    /\ clock = 0
    /\ files = << >>

NextTwice ==
    \/ Connect
    \/ GetDatabaseStats
    \/ GetSystemInfo
    \/ ReadRuns
    \/ Call
    \/ EnterCategory
    \/ LeaveCategory
    \/ BeginQuery
    \/ SampleOK
    \/ SampleFail
    \/ FinishQuery
    \/ Return
    \/ PrintSummary
    \/ SaveCsv
    \/ SaveJson
    \/ EnrichJson
    \/ Restart
    \/ Reload

SpecTwice == InitTwice /\ [][NextTwice]_vars

----------------------------------------------------------------------------
(* save_results_to_json on its own: one sequence exported to two places *)

\* aggregates of one sample each
Aggregates ==
    { Annotate(AvgMetrics(n, << sample >>), "SIMPLE", size, 0) :
        n \in {"Movies by Year", "Top Rated Movies"},
        sample \in SampleValues, size \in DatasetSizes }

\* the sequences handed to the export: up to MaxExported aggregates
MaxExported == 2

ExportInputs ==
    UNION { [1..len -> Aggregates] : len \in 0..MaxExported }

Destination(k) ==
    [stem |-> "export", rows |-> k, timestamp |-> 0, ext |-> "json"]

InitJson ==
    /\ NoLoader
    /\ pc = "export"
    /\ all_results \in ExportInputs
    /\ all_metrics = << >>
    /\ env = FlakyEnv({})
    /\ host = Host(str(1), {}, 1, 1)
    /\ store_movies \in DatasetSizes
    /\ dataset_size = store_movies
    /\ invocation = 1
    /\ raised = "none"
    /\ connections = Imported
    /\ summary = << >>
    /\ runs = 1
    /\ cat_i = 1
    /\ q_i = 1
    /\ samples = << >>
    /\ console = << >>
    /\ tx_status = "IDLE"
    /\ executions = [n \in QueryNames |-> 0]
    /\ clock = 0
    /\ files = << >>

\* save_results_to_json(results, first destination)
ExportFirst ==
    /\ pc = "export"
    /\ save_results_to_json(all_results, Destination(1))
    /\ pc' = "exported_once"
    /\ clock' = clock + 1
    /\ UNCHANGED <<loading, env, runs, dataset_size, cat_i, q_i, samples, all_metrics,
                   tx_status, executions, outer>>

\* save_results_to_json(results, second destination), some time later
ExportSecond ==
    /\ pc = "exported_once"
    /\ save_results_to_json(all_results, Destination(2))
    /\ pc' = "exported_twice"
    /\ clock' = clock + 1
    /\ UNCHANGED <<loading, env, runs, dataset_size, cat_i, q_i, samples, all_metrics,
                   tx_status, executions, outer>>

NextJson ==
    \/ ExportFirst
    \/ ExportSecond

SpecJson == InitJson /\ [][NextJson]_vars

----------------------------------------------------------------------------
(* The loaders: load_data_by_size.py and loading_dataset.py                *)
(*                                                                         *)
(* A cell of the CSV is its text, a sequence of characters; an empty cell  *)
(* is NaN.  Movie ids are kept as the text of the cell.                    *)

\* rows of the CSV the loaders are run on
MaxRows == 2

\* nrows of loading_dataset.py, line 11
DefaultRows == 5000

\* the float nan pandas puts in an empty cell, and None: neither is a str
NaN == << "nan" >>
None == << "None" >>

isinstance_str(val) == val # NaN /\ val # None

\* Python truth of a cell: None is false, nan and non-empty text are true
Truthy(val) == val # None /\ val # << >>

\* str.split(","): the pieces between the commas
RECURSIVE split(_)
split(s) ==
    IF \A k \in 1..Len(s) : s[k] # "," THEN << s >>
    ELSE LET k == CHOOSE i \in 1..Len(s) :
                      s[i] = "," /\ \A j \in 1..(i - 1) : s[j] # ","
         IN << SubSeq(s, 1, k - 1) >> \o split(SubSeq(s, k + 1, Len(s)))

\* the text is a quoted string literal: 'x'
IsQuoted(s) == Len(s) >= 2 /\ s[1] = "'" /\ s[Len(s)] = "'"

\* the text is a list literal of quoted strings: ['x', 'y'] or []
IsListLiteral(s) ==
    /\ Len(s) >= 2
    /\ s[1] = "["
    /\ s[Len(s)] = "]"
    /\ LET inner == strip(SubSeq(s, 2, Len(s) - 1))
       IN inner = << >> \/
          \A k \in 1..Len(split(inner)) : IsQuoted(strip(split(inner)[k]))

\* ast.literal_eval of a list literal: the strings it lists
literal_eval(s) ==
    LET inner == strip(SubSeq(s, 2, Len(s) - 1))
        items == split(inner)
    IN IF inner = << >> THEN << >>
       ELSE [k \in 1..Len(items) |->
                LET item == strip(items[k])
                IN SubSeq(item, 2, Len(item) - 1)]

\* safe_list, load_data_by_size.py lines 13-20: the list the cell spells,
\* the empty list for an empty cell and for text literal_eval rejects
safe_list(val) ==
    IF ~isinstance_str(val) THEN << >>
    ELSE IF IsListLiteral(val) THEN literal_eval(val)
    ELSE << >>

\* the set of the elements of a sequence
Range(s) == { s[k] : k \in 1..Len(s) }

\* the columns the loaders rename, load_data_by_size.py lines 507-519,
\* loading_dataset.py lines 17-29
RenamedColumns ==
    [Director |-> "director", Star1 |-> "star1", Star2 |-> "star2",
     Star3 |-> "star3", Star4 |-> "star4", Writer |-> "writer",
     Music_Composer |-> "music_composer", Cast_list |-> "cast_members",
     genres_list |-> "genres_list",
     Director_of_Photography |-> "director_of_photography",
     Producers |-> "producers"]

NewName(c) == IF c \in DOMAIN RenamedColumns THEN RenamedColumns[c] ELSE c

\* df.rename(columns=...) on one row
rename(row) ==
    [c \in { NewName(o) : o \in DOMAIN row } |->
        row[CHOOSE o \in DOMAIN row : NewName(o) = c]]

\* row.get(column): None when the row has no such column
get(row, column) == IF column \in DOMAIN row THEN row[column] ELSE None

\* df.dropna(subset=["id", "title"])
dropna(rows) == SelectSeq(rows, LAMBDA r : r["id"] # NaN /\ r["title"] # NaN)

\* pd.read_csv(..., nrows=n): the first n rows of the file
read_csv(file, nrows) ==
    SubSeq(file, 1, IF nrows < Len(file) THEN nrows ELSE Len(file))

\* a row of the CSV; the columns not listed here are empty
Movie(id, title, director, producers, cast, genres, keywords, companies, countries, languages) ==
    [id |-> id, title |-> title, Director |-> director, Star1 |-> NaN,
     Star2 |-> NaN, Star3 |-> NaN, Star4 |-> NaN, Writer |-> NaN,
     Music_Composer |-> NaN, Director_of_Photography |-> NaN,
     Producers |-> producers, Cast_list |-> cast, genres_list |-> genres,
     keywords |-> keywords, production_companies |-> companies,
     production_countries |-> countries, spoken_languages |-> languages]

\* ['C']
ListOfOne(c) == << "[", "'", c, "'", "]" >>

\* ['D', 'W']
ListOfTwo(c, d) == << "[", "'", c, "'", ",", " ", "'", d, "'", "]" >>

\* the file: a movie with every field filled, a movie whose director is
\* spelled with a leading blank, and a line without a title
CsvFile ==
    << Movie(str(1), << "T" >>, << "A" >>, << "P", ",", " ", "Q" >>,
             ListOfOne("C"), ListOfTwo("D", "W"), ListOfOne("k"),
             << "X", ",", "Y" >>, ListOfOne("U"), << "E" >>),
       Movie(str(2), << "S" >>, << " ", "A" >>, << "P" >>,
             NaN, ListOfOne("D"), NaN, NaN, << "U", ",", " ", "F" >>, NaN),
       Movie(str(3), NaN, << "B" >>, NaN, NaN, NaN, NaN, NaN, NaN, NaN) >>

\* the files the loaders are run on: up to MaxRows consecutive lines
CsvInputs ==
    { SubSeq(CsvFile, a, b) :
        a \in 1..Len(CsvFile),
        b \in 0..Len(CsvFile) } \cap
    UNION { [1..n -> Range(CsvFile)] : n \in 0..MaxRows }

\* the tables
LookupTables ==
    << "people", "genres", "keywords", "companies", "countries", "languages" >>

RelationOf ==
    [people |-> "movie_people", genres |-> "movie_genres",
     keywords |-> "movie_keywords", companies |-> "movie_companies",
     countries |-> "movie_countries", languages |-> "movie_languages"]

RelationTables == { RelationOf[t] : t \in Range(LookupTables) }

LookupOf(relation) ==
    CHOOSE t \in Range(LookupTables) : RelationOf[t] = relation

\* the column of a relation table that holds the id of the lookup row
RefColumn ==
    [people |-> "person_id", genres |-> "genre_id", keywords |-> "keyword_id",
     companies |-> "company_id", countries |-> "country_id",
     languages |-> "language_id"]

\* the column of the data frame a lookup table is filled from
SourceColumn ==
    [genres |-> "genres_list", keywords |-> "keywords",
     companies |-> "production_companies",
     countries |-> "production_countries",
     languages |-> "spoken_languages"]

Tables == {"movies"} \cup Range(LookupTables) \cup RelationTables

EmptyStore == [t \in Tables |-> {}]

\* a store loaded earlier: one movie with its director
OldStore ==
    [EmptyStore EXCEPT
        !["movies"] = { [id |-> str(9), title |-> << "O" >>] },
        !["people"] = { [id |-> 1, name |-> << "Z" >>] },
        !["movie_people"] =
            { [movie_id |-> str(9), person_id |-> 1, role |-> "director"] }]

\* the last id handed out for each lookup table of a store
Serials(content) ==
    [t \in Range(LookupTables) |->
        IF content[t] = {} THEN 0
        ELSE CHOOSE n \in { r.id : r \in content[t] } :
                \A r \in content[t] : r.id <= n]

\* the steps of load_data_by_size.main with a relation table loaded before
\* its lookup table
StepsRelationsFirst(loader) ==
    << "clear", "movies", "people", "movie_people", "movie_genres", "genres",
       "keywords", "movie_keywords", "companies", "movie_companies",
       "countries", "movie_countries", "languages", "movie_languages" >>

\* the steps of a loader in program order: load_data_by_size.py lines
\* 536-552, loading_dataset.py lines 144-479
Steps(loader) ==
    (IF loader = "load_data_by_size" THEN << "clear" >> ELSE << >>) \o
    << "movies", "people", "movie_people", "genres", "movie_genres",
       "keywords", "movie_keywords", "companies", "movie_companies",
       "countries", "movie_countries", "languages", "movie_languages" >>

\* every step commits
CommitsEveryStep(loader, step) == TRUE

\* the steps that end with conn.commit(): every function of
\* load_data_by_size.py; in loading_dataset.py the last one only (line 482)
Commits(loader, step) ==
    \/ loader = "load_data_by_size"
    \/ step = Steps(loader)[Len(Steps(loader))]

\* the single-name columns, lines 87-91, and the role of each, lines 137-146
Roles ==
    [director |-> "director", writer |-> "writer",
     composer |-> "music_composer",
     directory_of_photography |-> "director_of_photography",
     star |-> "star1", star2 |-> "star2", star3 |-> "star3",
     star4 |-> "star4"]

\* the column the producers are read from when the relations are built:
\* load_data_by_size.py line 167, loading_dataset.py line 230
ProducersColumn(loader) ==
    IF loader = "load_data_by_size" THEN "producers" ELSE "Producers"

\* [x.strip() for x in text.split(",") if x.strip()]
SplitNames(text) ==
    LET pieces == split(text)
        stripped == [k \in 1..Len(pieces) |-> strip(pieces[k])]
    IN SelectSeq(stripped, LAMBDA x : x # << >>)

\* the entries of a list-valued cell as load_countries and load_languages
\* read it: the literal list, else the comma-separated names
ListOrNames(val) ==
    IF ~isinstance_str(val) THEN << >>
    ELSE IF safe_list(val) # << >> THEN safe_list(val)
    ELSE SplitNames(val)

\* the entries of a row for a lookup table other than people, as both the
\* load function and the relation function of the table read them
Entries(table, row) ==
    LET val == get(row, SourceColumn[table])
    IN IF table \in {"genres", "keywords"} THEN safe_list(val)
       ELSE IF table = "companies"
            THEN IF isinstance_str(val)
                 THEN [k \in 1..Len(split(val)) |-> strip(split(val)[k])]
                 ELSE << >>
       ELSE ListOrNames(val)

\* the names load_people collects from one row, lines 85-105
PeopleOf(row) ==
    { strip(get(row, Roles[r])) :
        r \in { q \in DOMAIN Roles :
                  Truthy(get(row, Roles[q])) /\ isinstance_str(get(row, Roles[q])) } }
    \cup
    (LET producers == get(row, "producers")
     IN IF Truthy(producers) /\ isinstance_str(producers)
        THEN { strip(p) : p \in Range(split(producers)) }
        ELSE {})
    \cup
    { strip(actor) : actor \in Range(safe_list(get(row, "cast_members"))) }

\* the names a load function inserts into its lookup table
NamesOf(table, frame) ==
    UNION { IF table = "people" THEN PeopleOf(frame[k])
            ELSE IF table \in {"countries", "languages"}
                 THEN { strip(c) : c \in Range(Entries(table, frame[k])) }
            ELSE Range(Entries(table, frame[k])) :
            k \in 1..Len(frame) }

\* the movie_people rows built from one row, lines 134-181 / 198-240
PeopleRelations(loader, row, people_map) ==
    { [movie_id |-> row["id"], person_id |-> people_map[get(row, Roles[r])],
       role |-> r] :
        r \in { q \in DOMAIN Roles :
                  /\ Truthy(get(row, Roles[q]))
                  /\ get(row, Roles[q]) \in DOMAIN people_map } }
    \cup
    { [movie_id |-> row["id"], person_id |-> people_map[actor],
       role |-> "actor"] :
        actor \in Range(safe_list(get(row, "cast_members")))
                    \cap DOMAIN people_map }
    \cup
    (LET producers == get(row, ProducersColumn(loader))
     IN IF Truthy(producers) /\ isinstance_str(producers)
        THEN { [movie_id |-> row["id"], person_id |-> people_map[prod],
                role |-> "producer"] :
                 prod \in { strip(p) : p \in Range(split(producers)) }
                            \cap DOMAIN people_map }
        ELSE {})

\* a row of a relation table other than movie_people
Reference(table, movie_id, id) ==
    [c \in {"movie_id", RefColumn[table]} |->
        IF c = "movie_id" THEN movie_id ELSE id]

\* the rows a relation function builds from the data frame and the map
RelationsOf(loader, table, frame, map) ==
    UNION { IF table = "people" THEN PeopleRelations(loader, frame[k], map)
            ELSE { Reference(table, frame[k]["id"], map[e]) :
                     e \in Range(Entries(table, frame[k])) \cap DOMAIN map } :
            k \in 1..Len(frame) }

\* TRUNCATE of every table, lines 30-36
truncate(content) == EmptyStore

\* INSERT INTO movies ... ON CONFLICT (id) DO NOTHING
insert_movies(content, frame) ==
    [content EXCEPT !["movies"] =
        @ \cup { [id |-> frame[k]["id"], title |-> frame[k]["title"]] :
                   k \in { j \in 1..Len(frame) :
                             /\ \A r \in content["movies"] : r.id # frame[j]["id"]
                             /\ \A i \in 1..(j - 1) :
                                  frame[i]["id"] # frame[j]["id"] } }]

\* the names of a batch the table does not hold yet
Fresh(content, table, names) ==
    names \ { r.name : r \in content[table] }

\* the orders in which a set of names can reach the store: the loaders
\* iterate over a Python set of strings
Orders(names) ==
    { f \in [names -> 1..Cardinality(names)] :
        \A a, b \in names : a # b => f[a] # f[b] }

\* INSERT INTO <lookup> (name) ... ON CONFLICT (name) DO NOTHING: each new
\* name gets the next id of the sequence of the table
insert_names(content, table, order, last) ==
    [content EXCEPT ![table] =
        @ \cup { [id |-> last + order[n], name |-> n] : n \in DOMAIN order }]

\* SELECT id, name FROM <lookup>, made into a dict name -> id
select_map(content, table) ==
    [n \in { r.name : r \in content[table] } |->
        (CHOOSE r \in content[table] : r.name = n).id]

\* INSERT INTO <relation> ... ON CONFLICT DO NOTHING
insert_relations(content, relation, rows) ==
    [content EXCEPT ![relation] = @ \cup rows]

\* the state of benchmark.py, which the loaders leave alone
benchmarking ==
    <<pc, env, runs, dataset_size, cat_i, q_i, samples, all_metrics,
      all_results, console, tx_status, executions, clock, files, host,
      store_movies, invocation, raised, connections, summary>>

\* benchmark.py does not run
NoBenchmark ==
    /\ pc = "none"
    /\ env = FlakyEnv({})
    /\ runs = 0
    /\ dataset_size = 0
    /\ cat_i = 1
    /\ q_i = 1
    /\ samples = << >>
    /\ all_metrics = << >>
    /\ all_results = << >>
    /\ console = << >>
    /\ tx_status = "IDLE"
    /\ executions = [n \in QueryNames |-> 0]
    /\ clock = 0
    /\ files = << >>
    /\ host = Host(str(1), {}, 1, 1)
    /\ store_movies = 0
    /\ invocation = 1
    /\ raised = "none"
    /\ connections = [open |-> {}, used |-> {}]
    /\ summary = << >>

\* a loader has read the CSV and connected: load_data_by_size.py lines
\* 498-533, loading_dataset.py lines 8-52
InitLoad ==
    /\ NoBenchmark
    /\ script \in {"load_data_by_size", "loading_dataset"}
    /\ \E file \in CsvInputs :
         \E nrows \in (IF script = "loading_dataset" THEN {DefaultRows}
                       ELSE 1..MaxRows) :
            df = [k \in 1..Len(dropna(read_csv(file, nrows))) |->
                     rename(dropna(read_csv(file, nrows))[k])]
    /\ existing \in {EmptyStore, OldStore}
    /\ store = existing
    /\ work = existing
    /\ serial = Serials(existing)
    /\ maps = [t \in Range(LookupTables) |-> << >>]
    /\ status = "running"
    /\ performed = << >>
    /\ committed = {}
    /\ commits = 0

\* the step the loader is at
Pending == Len(performed) < Len(Steps(script))
Current == Steps(script)[Len(performed) + 1]

\* a step ends: conn.commit() where the loader has one
Done(step, content) ==
    /\ performed' = Append(performed, step)
    /\ work' = content
    /\ IF Commits(script, step)
       THEN /\ store' = content
            /\ committed' = Range(Append(performed, step))
            /\ commits' = commits + 1
       ELSE UNCHANGED <<store, committed, commits>>

\* clear_database, load_data_by_size.py lines 23-40
ClearDatabase ==
    /\ status = "running"
    /\ Pending
    /\ Current = "clear"
    /\ Done("clear", truncate(work))
    /\ UNCHANGED <<script, df, existing, status, serial, maps, benchmarking>>

\* load_movies, lines 43-77; loading_dataset.py lines 55-144
LoadMovies ==
    /\ status = "running"
    /\ Pending
    /\ Current = "movies"
    /\ Done("movies", insert_movies(work, df))
    /\ UNCHANGED <<script, df, existing, status, serial, maps, benchmarking>>

\* load_people, load_genres, load_keywords, load_companies, load_countries,
\* load_languages: the names are inserted and the map is read back
LoadLookup ==
    /\ status = "running"
    /\ Pending
    /\ Current \in Range(LookupTables)
    /\ LET table == Current
           fresh == Fresh(work, table, NamesOf(table, df))
       IN \E order \in Orders(fresh) :
            LET content == insert_names(work, table, order, serial[table])
            IN /\ Done(table, content)
               /\ serial' = [serial EXCEPT ![table] = @ + Cardinality(fresh)]
               /\ maps' = [maps EXCEPT ![table] = select_map(content, table)]
    /\ UNCHANGED <<script, df, existing, status, benchmarking>>

\* load_movie_people_relations, load_movie_genre_relations, ...: the rows
\* are built from the data frame and the map and inserted
LoadRelations ==
    /\ status = "running"
    /\ Pending
    /\ Current \in RelationTables
    /\ LET table == LookupOf(Current)
       IN Done(Current,
               insert_relations(work, Current,
                                RelationsOf(script, table, df, maps[table])))
    /\ UNCHANGED <<script, df, existing, status, serial, maps, benchmarking>>

\* a statement raises: nothing catches it, the process ends and the store
\* rolls back what the connection had not committed
Crash ==
    /\ status = "running"
    /\ Pending
    /\ status' = "failed"
    /\ work' = store
    /\ UNCHANGED <<script, df, existing, performed, store, serial, maps,
                   committed, commits, benchmarking>>

\* conn.close() after the last step: load_data_by_size.py line 554,
\* loading_dataset.py lines 483-484
Close ==
    /\ status = "running"
    /\ ~Pending
    /\ status' = "done"
    /\ work' = store
    /\ UNCHANGED <<script, df, existing, performed, store, serial, maps,
                   committed, commits, benchmarking>>

NextLoad ==
    \/ ClearDatabase
    \/ LoadMovies
    \/ LoadLookup
    \/ LoadRelations
    \/ Crash
    \/ Close

SpecLoad == InitLoad /\ [][NextLoad]_vars

----------------------------------------------------------------------------
(* Properties *)

QueryLines == SelectSeq(console, LAMBDA l : l.kind = "query")
ErrorLines == SelectSeq(QueryLines, LAMBDA l : l.mark = "error")
DoneLines == SelectSeq(QueryLines, LAMBDA l : l.mark = "done")
CategoryLines == SelectSeq(console, LAMBDA l : l.kind = "category")
OwnErrorLines == SelectSeq(ErrorLines, LAMBDA l : l.error \in {"client", "store"})

LineNames(lines) == {lines[k].name : k \in 1..Len(lines)}
ResultNames == {all_results[k].query_name : k \in 1..Len(all_results)}
ResultCategories == {all_results[k].category : k \in 1..Len(all_results)}
LastResult == all_results[Len(all_results)]
Finished ==
    \/ pc \in {"returned", "summarized", "csv_saved", "json_saved", "complete"}
    \/ pc = "aborted" /\ raised \in {"csv", "json", "rewrite"}
ExportName == csv_filename(dataset_size, clock)

\* C1: a query that raises is diagnosed on its own console line and the
\* runner goes on: the queries are attempted in catalog order with none
\* skipped, and when run_all_benchmarks has returned every query of the
\* catalog has been attempted and is marked done or failed.
C1_FailureIsolated ==
    /\ Len(QueryLines) <= Len(CatalogOrder)
    /\ \A k \in 1..Len(QueryLines) :
          /\ QueryLines[k].name = CatalogOrder[k].name
          /\ QueryLines[k].mark = "" =>
                (k = Len(QueryLines) /\ pc \in {"sampling", "hung"})
    /\ Finished => Len(QueryLines) = Len(CatalogOrder)

\* C1 witness: the run returned, a query failed and a later one completed.
C1_Witness ==
    /\ pc = "returned"
    /\ \E j, k \in 1..Len(QueryLines) :
          j < k /\ QueryLines[j].mark = "error" /\ QueryLines[k].mark = "done"

\* C2: a failed query has no entry in all_results nor in the written CSV
\* file; every entry belongs to a query whose console line is marked done.
C2_NoEntryForFailed ==
    /\ ResultNames \cap LineNames(ErrorLines) = {}
    /\ ResultNames \subseteq LineNames(DoneLines)
    /\ \A f \in DOMAIN files : f.ext = "csv" =>
          \A k \in 2..Len(files[f]) : files[f][k][4] \notin LineNames(ErrorLines)

\* C2 witness: a CSV file was written after a run in which a query failed.
C2_Witness ==
    /\ pc = "csv_saved"
    /\ Len(ErrorLines) >= 1
    /\ DOMAIN files # {}

\* C3 (as claimed): when exactly one query fails on its own, the run returns
\* (catalog size - 1) aggregates and the console has exactly one failure line.
C3_OneBrokenQuery ==
    (Finished /\ Len(OwnErrorLines) = 1) =>
        /\ Len(all_results) = Len(CatalogOrder) - 1
        /\ Len(ErrorLines) = 1

\* C4: every aggregate has runs = N and its query was executed exactly N
\* times; no query is executed more than N times.
C4_RunCount ==
    /\ \A k \in 1..Len(all_results) :
          /\ all_results[k].runs = runs
          /\ executions[all_results[k].query_name] = runs
    /\ \A n \in QueryNames : executions[n] <= runs

\* C4 witness: N = 2, one query failed after one execution and is absent,
\* another one completed.
C4_Witness ==
    /\ Finished
    /\ runs >= 2
    /\ all_results # << >>
    /\ \E n \in QueryNames :
          executions[n] > 0 /\ executions[n] < runs /\ n \notin ResultNames

\* C5: avg_memory_mb of an aggregate is never negative; it is the mean of
\* the samples' memory deltas when that is non-negative, and 0 otherwise.
C5_MemoryClamped ==
    /\ \A k \in 1..Len(all_results) : all_results[k].avg_memory_mb.num >= 0
    /\ (all_metrics # << >> /\ all_results # << >>) =>
          LET total == SumSeq(Field(all_metrics, "memory_mb"))
              stored == LastResult.avg_memory_mb
          IN IF total < 0
             THEN stored.num = 0
             ELSE stored.num * Len(all_metrics) = total * stored.den

\* C5 witness: every sample of the last query had a negative memory delta.
C5_Witness ==
    /\ all_metrics # << >>
    /\ all_results # << >>
    /\ \A k \in 1..Len(all_metrics) : all_metrics[k].memory_mb < 0
    /\ LastResult.avg_memory_mb = Zero

\* C6: min_execution_time <= avg_execution_time <= max_execution_time in
\* every aggregate.
C6_MinAvgMax ==
    \A k \in 1..Len(all_results) :
        LET r == all_results[k]
        IN /\ r.min_execution_time * r.avg_execution_time.den
                 <= r.avg_execution_time.num
           /\ r.avg_execution_time.num
                 <= r.max_execution_time * r.avg_execution_time.den

\* C6 witness: an aggregate whose mean lies strictly between min and max.
C6_Witness ==
    \E k \in 1..Len(all_results) :
        LET r == all_results[k]
        IN /\ r.min_execution_time * r.avg_execution_time.den
                 < r.avg_execution_time.num
           /\ r.avg_execution_time.num
                 < r.max_execution_time * r.avg_execution_time.den

\* C7: the aggregate is the reduction of the N samples (mean, minimum and
\* maximum of the times, rows of the last sample, run count N); the times
\* [0.01, 0.02, 0.015, 0.01, 0.02] of a SIMPLE query returning 3 rows give
\* avg 0.015, min 0.01, max 0.02, rows_returned 3, run_count 5.
C7_Reduction ==
    /\ (all_metrics # << >> /\ all_results # << >>) =>
          LET t == Field(all_metrics, "execution_time")
              r == LastResult
          IN /\ r.avg_execution_time.num * Len(t)
                   = SumSeq(t) * r.avg_execution_time.den
             /\ \A k \in 1..Len(t) :
                   r.min_execution_time <= t[k] /\ t[k] <= r.max_execution_time
             /\ \E k \in 1..Len(t) : r.min_execution_time = t[k]
             /\ \E k \in 1..Len(t) : r.max_execution_time = t[k]
             /\ r.rows_returned = all_metrics[Len(all_metrics)].rows_returned
             /\ r.runs = Len(all_metrics)
    /\ (env.scripted /\ all_results # << >>) =>
          /\ all_results[1].category = "SIMPLE"
          /\ all_results[1].avg_execution_time = [num |-> 3, den |-> 1]
          /\ all_results[1].min_execution_time = 2
          /\ all_results[1].max_execution_time = 4
          /\ all_results[1].rows_returned = 3
          /\ all_results[1].runs = 5

\* C7 witness: the scenario's query has been aggregated.
C7_Witness ==
    /\ env.scripted
    /\ Len(all_results) = 1
    /\ Field(all_metrics, "execution_time") = ScenarioTimes

\* C8: the categories are visited in declared order and all_results is the
\* catalog order restricted to the queries that succeeded.
C8_CatalogOrder ==
    /\ Len(CategoryLines) <= Len(benchmark_queries)
    /\ \A k \in 1..Len(CategoryLines) :
          CategoryLines[k].name = benchmark_queries[k].category
    /\ [k \in 1..Len(all_results) |->
           [category |-> all_results[k].category,
            name     |-> all_results[k].query_name]]
         = SelectSeq(CatalogOrder, LAMBDA e : e.name \in ResultNames)

\* C8 witness: a run with a failure and aggregates of all three categories.
C8_Witness ==
    /\ Finished
    /\ Len(ErrorLines) >= 1
    /\ ResultCategories = {"SIMPLE", "COMPLEX", "AGGREGATED"}

\* C9: all_results has no two entries of one query, and on return its
\* length is the number of catalog queries that did not fail (0 when every
\* query failed).
C9_OnePerSuccess ==
    /\ \A j, k \in 1..Len(all_results) :
          all_results[j].query_name = all_results[k].query_name => j = k
    /\ Finished => Len(all_results) = Len(CatalogOrder) - Len(ErrorLines)
    /\ (Finished /\ Len(ErrorLines) = Len(CatalogOrder)) => all_results = << >>

\* C9 witness: every query failed and the run returned the empty sequence.
C9_Witness ==
    /\ pc = "returned"
    /\ Len(ErrorLines) = Len(CatalogOrder)
    /\ all_results = << >>

CsvFiles == {f \in DOMAIN files : f.ext = "csv"}
JsonFiles == {f \in DOMAIN files : f.ext = "json"}
JsonName == json_filename(dataset_size, clock)
Reported(text) ==
    \E k \in 1..Len(console) : console[k].kind = "message" /\ console[k].name = text

C12_NeverOverwritten ==
    [][(invocation > 1 /\ pc \in {"summarized", "csv_saved"} /\ files' # files)
          => DOMAIN files' # DOMAIN files]_vars

EnvelopeKeys(runs_key) ==
    {"system_info", "database_stats", "dataset_size", runs_key, "timestamp",
     "results"}

\* C15 (as claimed): after the enrichment the document is an envelope with
\* the keys system_info, database_stats, dataset_size, run_count, timestamp
\* and results.
C15_EnvelopeRunCount ==
    pc = "complete" => DOMAIN files[JsonName] = EnvelopeKeys("run_count")

\* C15 (amended): the enrichment rewrites the file that was written: the
\* document is then an envelope with the keys system_info, database_stats,
\* dataset_size, runs_per_query, timestamp and results; results holds the
\* aggregates written before, in their order and with their values, and
\* dataset_size and runs_per_query are those of the invocation.
C15_EnvelopeRunsPerQuery ==
    /\ pc = "json_saved" => json_load(files[JsonName]) = all_results
    /\ pc = "complete" =>
          LET document == files[JsonName]
          IN /\ DOMAIN document = EnvelopeKeys("runs_per_query")
             /\ document.results = json_dump(all_results)
             /\ json_load(document.results) = all_results
             /\ int(document.dataset_size) = dataset_size
             /\ int(document.runs_per_query) = runs
             /\ invocation = 1 => JsonFiles = {JsonName}

\* C15 witness: the envelope of a run of two executions per query holds
\* aggregates, after a run in which a query failed.
C15_Witness ==
    /\ pc = "complete"
    /\ runs = 2
    /\ Len(ErrorLines) >= 1
    /\ Len(files[JsonName].results) >= 2

\* C16: when the CSV export, the JSON export or the rewrite of the JSON
\* document raises, main is aborted and completion is never reported;
\* completion is reported only with every artifact of the invocation written.
C16_ExportFailureFatal ==
    /\ raised \in {"csv", "json", "rewrite"} =>
          pc = "aborted" /\ ~Reported("BENCHMARK COMPLETE!")
    /\ Reported("BENCHMARK COMPLETE!") =>
          /\ pc = "complete"
          /\ raised = "none"
          /\ JsonName \in JsonFiles
          /\ DOMAIN files[JsonName] = EnvelopeKeys("runs_per_query")
          /\ all_results # << >> =>
                ExportName \in CsvFiles /\ Len(files[ExportName]) > 1

\* C16 witness: the CSV file was written, the JSON export raised and left
\* an empty file, main is aborted.
C16_Witness ==
    /\ pc = "aborted"
    /\ raised = "json"
    /\ ExportName \in CsvFiles
    /\ JsonName \in JsonFiles
    /\ files[JsonName] = << >>

\* C17 (as claimed): get_database_stats or get_system_info raising does not
\* abort main.
C17_ProbeFailureTolerated ==
    ~(pc = "aborted" /\ raised \in {"db_stats", "sys_info"})

\* C18: every aggregate of an invocation carries the dataset_size main read
\* from the store at its start, which is the row count of the store during
\* the invocation, the category of its query, and the time of its creation:
\* the time stamps never decrease along the sequence nor exceed the clock.
C18_FreshDatasetSize ==
    /\ pc \notin {"main", "complete", "aborted"} => dataset_size = store_movies
    /\ \A k \in 1..Len(all_results) :
          LET r == all_results[k]
          IN /\ r.dataset_size = dataset_size
             /\ \E c \in 1..Len(CatalogOrder) :
                   /\ CatalogOrder[c].name = r.query_name
                   /\ CatalogOrder[c].category = r.category
             /\ r.timestamp <= clock
             /\ r.timestamp >= host.tick * runs * k
             /\ k > 1 => all_results[k - 1].timestamp <= r.timestamp
    /\ (pc = "query" /\ all_results # << >> /\ DoneLines # << >>
            /\ QueryLines[Len(QueryLines)].mark = "done") =>
          LastResult.timestamp = clock

\* C18 witness: a second invocation, run after the store was reloaded to
\* another size, has produced aggregates carrying the new size, while a
\* report of the first invocation with the old size is on the disk.
C18_Witness ==
    /\ invocation = 2
    /\ Len(all_results) >= 2
    /\ LastResult.dataset_size = 15000
    /\ \E f \in DOMAIN files : f.rows = 5000

\* C19 (as claimed): the run count main hands to run_all_benchmarks is at
\* least 1, whatever the user typed.
C19_RunsAtLeastOne ==
    pc \in {"call", "category", "query", "sampling", "hung", "returned"}
        => runs >= 1

\* C20: the executions happen one query at a time in catalog order: a query
\* whose console line is not yet printed has not been executed, every query
\* before the current one has completed or failed, at most one query is
\* under way and it has been executed once per sample taken, and a query
\* that completed was executed exactly N times.
C20_Sequential ==
    /\ Len(QueryLines) <= Len(CatalogOrder)
    /\ \A k \in 1..Len(CatalogOrder) :
          LET n == CatalogOrder[k].name
          IN /\ k > Len(QueryLines) => executions[n] = 0
             /\ k < Len(QueryLines) => QueryLines[k].mark \in {"done", "error"}
             /\ k <= Len(QueryLines) =>
                   /\ QueryLines[k].name = n
                   /\ executions[n] <= runs
                   /\ QueryLines[k].mark = "done" => executions[n] = runs
                   /\ QueryLines[k].mark = "" =>
                         /\ pc \in {"sampling", "hung"}
                         /\ executions[n] = Len(samples)

\* C20 witness: the second execution of a query is about to start, after an
\* earlier query completed its N = 2 executions and another failed.
C20_Witness ==
    /\ pc = "sampling"
    /\ runs = 2
    /\ Len(samples) = 1
    /\ executions[CurrentName] = 1
    /\ Len(DoneLines) >= 1
    /\ Len(ErrorLines) >= 1

Running == pc \in {"call", "category", "query", "sampling", "hung", "returned"}

\* C21 (as claimed): one connection to the store is open during a run, and
\* the row count, the statistics and every catalog query use that one handle.
C21_SingleHandle ==
    Running => Cardinality(connections.open) = 1 /\ Cardinality(connections.used) <= 1

\* C22: run_all_benchmarks leaves the store as main found it: from the call
\* to the return, whether executions succeed or fail, the movies table has
\* the row count main read before the call.
C22_StoreUnchanged ==
    /\ Running \/ pc = "summarized" => store_movies = dataset_size
    /\ \A n \in QueryNames : execute(statement(n), store_movies) = store_movies

\* C22 witness: the run returned after a query was rejected by the store
\* and an earlier one was executed, the row count being what it was.
C22_Witness ==
    /\ pc = "returned"
    /\ all_results # << >>
    /\ \E k \in 1..Len(ErrorLines) : ErrorLines[k].error = "store"
    /\ store_movies = dataset_size
    /\ store_movies > 0

RECURSIVE CommonDen(_)
CommonDen(results) ==
    IF results = << >> THEN 1
    ELSE Head(results).avg_execution_time.den * CommonDen(Tail(results))

\* the sum of weight * avg_execution_time, in units of 1 / CommonDen
RECURSIVE WeightedTimes(_, _, _)
WeightedTimes(results, den, weighted) ==
    IF results = << >> THEN 0
    ELSE LET r == Head(results)
         IN (IF weighted THEN r.runs ELSE 1) * r.avg_execution_time.num
                * (den \div r.avg_execution_time.den)
            + WeightedTimes(Tail(results), den, weighted)

RECURSIVE Flatten(_)
Flatten(tables) ==
    IF tables = << >> THEN << >> ELSE Head(tables).rows \o Flatten(Tail(tables))

\* C24: for a non-empty result sequence the summary reports the number of
\* aggregates, the mean of their avg_execution_time and the sum of
\* avg_execution_time * runs; every aggregate is listed once, in the table
\* of its category, the tables in the order the categories first occur and
\* the lines of a table in result order.
C24_SummaryTotals ==
    summary # << >> =>
        LET o == summary[1].overall
            t == summary[1].tables
            den == CommonDen(all_results)
        IN /\ all_results # << >>
           /\ o.total_queries = Len(all_results)
           /\ o.avg_time.num * den * Len(all_results)
                 = WeightedTimes(all_results, den, FALSE) * o.avg_time.den
           /\ o.total_time.num * den
                 = WeightedTimes(all_results, den, TRUE) * o.total_time.den
           /\ Len(Flatten(t)) = Len(all_results)
           /\ \A c, d \in 1..Len(t) : c # d => t[c].category # t[d].category
           /\ \A c \in 1..Len(t) :
                 LET own == SelectSeq(all_results,
                                LAMBDA r : r.category = t[c].category)
                 IN /\ Len(t[c].rows) = Len(own)
                    /\ \A k \in 1..Len(own) :
                          /\ t[c].rows[k].query_name = own[k].query_name
                          /\ t[c].rows[k].time = own[k].avg_execution_time
                          /\ t[c].rows[k].rows = own[k].rows_returned

\* C24 witness: a summary of a run of two executions per query, with two
\* categories or more and a mean that is not a whole number.
C24_Witness ==
    /\ summary # << >>
    /\ runs = 2
    /\ Len(summary[1].tables) >= 2
    /\ Len(Flatten(summary[1].tables)) >= 3
    /\ summary[1].overall.avg_time.den > 1

\* C25: print_summary changes nothing but the console: the step of main
\* from the return of run_all_benchmarks to the exports leaves the results,
\* the files and the store alone and raises nothing; for an empty result
\* sequence nothing is printed.
C25_SummaryPresentational ==
    /\ [][pc = "returned" =>
             /\ pc' = "summarized"
             /\ all_results' = all_results
             /\ files' = files
             /\ raised' = raised
             /\ store_movies' = store_movies]_vars
    /\ [](summary # << >> => all_results # << >>)
    /\ []((pc = "summarized" /\ all_results = << >>) =>
              (summary = << >> /\ raised = "none"))

\* C25 witness: the summary of results was printed, a later result being
\* slower than an earlier one.
C25_Witness ==
    /\ pc = "summarized"
    /\ summary # << >>
    /\ \E j, k \in 1..Len(all_results) :
          /\ j < k
          /\ RatLess(all_results[j].avg_execution_time,
                     all_results[k].avg_execution_time)

\* C26: each catalog query is attempted once per invocation, in catalog
\* order with none skipped; a query is executed at most N times, fewer when
\* one of its executions failed, and after its failure never again.
C26_NoRetry ==
    /\ [](/\ Len(QueryLines) <= Len(CatalogOrder)
          /\ \A k \in 1..Len(QueryLines) :
                LET n == CatalogOrder[k].name
                IN /\ QueryLines[k].name = n
                   /\ executions[n] <= runs
                   /\ (QueryLines[k].mark = "error" /\ runs >= 1) =>
                         executions[n] + 1 <= runs
          /\ Finished => Len(QueryLines) = Len(CatalogOrder))
    /\ [][\A n \in LineNames(ErrorLines) :
             invocation' = invocation => executions'[n] = executions[n]]_vars

\* C26 witness: the run returned; a query failed in its second execution
\* and the queries after it were executed.
C26_Witness ==
    /\ pc = "returned"
    /\ runs = 2
    /\ \E j, k \in 1..Len(QueryLines) :
          /\ j < k
          /\ QueryLines[j].mark = "error"
          /\ executions[QueryLines[j].name] = 1
          /\ QueryLines[k].mark = "done"

\* C27: as long as every execution returns or raises, run_all_benchmarks
\* returns, and then every catalog query has been attempted; once an
\* execution does not return nothing happens any more: no later query is
\* started and run_all_benchmarks does not return.
C27_NoTimeout ==
    /\ (pc = "call") ~> (pc \in {"returned", "hung"})
    /\ [](pc = "returned" =>
             /\ Len(QueryLines) = Len(CatalogOrder)
             /\ \A k \in 1..Len(QueryLines) : QueryLines[k].mark # "")
    /\ [](tx_status = "ACTIVE" => pc = "hung")
    /\ [][tx_status # "ACTIVE"]_vars

\* C27 witness: an execution hangs after an earlier query completed, with
\* queries of the catalog not yet started.
C27_Witness ==
    /\ pc = "hung"
    /\ tx_status = "ACTIVE"
    /\ Len(DoneLines) >= 1
    /\ Len(QueryLines) < Len(CatalogOrder)

\* the step a transition of the loader performs
Performing(step) == performed' = Append(performed, step)

\* the rows a transition adds to a table
Added(t) == work'[t] \ work[t]

\* C28: load_data_by_size.main truncates every table and commits before it
\* inserts a row; it loads movies before every relation table and each
\* relation table after its lookup table was loaded and committed; the id
\* in a relation row is the id the store returned for a committed lookup
\* row.
C28_LoadOrder ==
    /\ [](script = "load_data_by_size" /\ performed # << >> =>
             performed[1] = "clear" /\ "clear" \in committed)
    /\ [][script = "load_data_by_size" =>
            /\ \A t \in Tables :
                  Added(t) # {} =>
                     /\ "clear" \in committed
                     /\ \A u \in Tables : store[u] \cap existing[u] = {}
            /\ \A t \in Range(LookupTables) :
                  /\ Performing(RelationOf[t]) =>
                        {"movies", t} \subseteq committed
                  /\ \A r \in Added(RelationOf[t]) :
                        /\ \E m \in store["movies"] : m.id = r.movie_id
                        /\ \E l \in store[t] :
                              /\ l.id = r[RefColumn[t]]
                              /\ l.name \in DOMAIN maps[t]
                              /\ maps[t][l.name] = l.id]_vars

\* C28 witness: load_data_by_size finished on a store that held older
\* rows; the old rows are gone and relation rows were loaded.
C28_Witness ==
    /\ script = "load_data_by_size"
    /\ status = "done"
    /\ existing = OldStore
    /\ store["movies"] # {}
    /\ store["movies"] \cap existing["movies"] = {}
    /\ store["movie_people"] # {}
    /\ store["movie_genres"] # {}
    /\ store["movie_countries"] # {}

\* C29: loading_dataset.py commits once, after its last insert: until then
\* the committed store is what it was before the load, a failed load leaves
\* it so, and when movies of the load are committed every step of the load
\* is committed with them.
C29_AllOrNothing ==
    script = "loading_dataset" =>
        /\ commits <= 1
        /\ commits = 0 => (store = existing /\ committed = {})
        /\ commits = 1 =>
              /\ performed = Steps(script)
              /\ committed = Range(Steps(script))
        /\ status = "failed" => store = existing
        /\ status = "done" => commits = 1
        /\ store["movies"] # existing["movies"] =>
              /\ committed = Range(Steps(script))
              /\ \A t \in Range(LookupTables) :
                    /\ NamesOf(t, df) \subseteq {r.name : r \in store[t]}
                    /\ RelationsOf(script, t, df, maps[t])
                          \subseteq store[RelationOf[t]]

\* C29 witness: loading_dataset.py failed after it had inserted movies,
\* people and their relations; nothing of the load is in the store.
C29_Witness ==
    /\ script = "loading_dataset"
    /\ status = "failed"
    /\ Len(df) >= 1
    /\ "movie_people" \in Range(performed)
    /\ store = existing
    /\ commits = 0

\* movie_people rows with the name of the person in place of the id
Named(rows, people) ==
    { [movie_id |-> r.movie_id,
       name |-> (CHOOSE q \in people : q.id = r.person_id).name,
       role |-> r.role] : r \in rows }

\* the producer names of a row that are in people
ProducersOf(row, people) ==
    LET producers == get(row, "producers")
    IN IF Truthy(producers) /\ isinstance_str(producers)
       THEN { strip(q) : q \in Range(split(producers)) }
              \cap { r.name : r \in people }
       ELSE {}

\* C30: loaded into an empty store, loading_dataset.py leaves the
\* movie_people relations load_data_by_size.py builds from the same rows,
\* with a producer row for every producer of a movie that is in people.
C30_LoadersEquivalent ==
    (script = "loading_dataset" /\ status = "done" /\ existing = EmptyStore) =>
        /\ Named(store["movie_people"], store["people"])
             = Named(RelationsOf("load_data_by_size", "people", df,
                                 maps["people"]), store["people"])
        /\ \A k \in 1..Len(df) :
              \A q \in ProducersOf(df[k], store["people"]) :
                 [movie_id |-> df[k]["id"], name |-> q, role |-> "producer"]
                    \in Named(store["movie_people"], store["people"])

====
